---- MODULE Spec2Model ----
(***************************************************************************)
(* Model of the Python Togo FastAPI application (src/main.py).             *)
(*                                                                         *)
(* One client talks to the server.  A request is handled atomically by its *)
(* route handler (Page, SetLanguage, JoinSubmit, ContactSubmitRoute,       *)
(* PartnershipSubmit, Home, Events, ...); the client then takes delivery   *)
(* of the response (Deliver), storing the lang cookie the response may     *)
(* set.  The module-level tables of the process are variables: Python      *)
(* lets any handler change them.                                           *)
(*                                                                         *)
(* Python strings that the code takes apart (the Accept-Language header)   *)
(* are sequences of one-character strings; strings the code only compares  *)
(* or copies are TLA+ strings.  An optional value (a cookie, a header) is  *)
(* a sequence of length 0 (absent) or 1 (present).                         *)
(***************************************************************************)
EXTENDS Integers, Sequences, FiniteSets, TLC

\* pc, req, resp: the request being handled and its response; jar: the
\* client's lang cookie; calls: the storage calls of the request; switched:
\* history of the client, the locale of the last switch the server accepted
VARIABLES pc, req, resp, jar, calls, SAMPLE_EVENTS, SAMPLE_NEWS,
          TRANSLATIONS, PARTNERS, GALLERIES, JOIN_REQUESTS, CONTACT_MESSAGES,
          switched

vars == <<pc, req, resp, jar, calls, SAMPLE_EVENTS, SAMPLE_NEWS,
          TRANSLATIONS, PARTNERS, GALLERIES, JOIN_REQUESTS, CONTACT_MESSAGES,
          switched>>

\* the process-wide tables
tables == <<SAMPLE_EVENTS, SAMPLE_NEWS, TRANSLATIONS, PARTNERS, GALLERIES,
            JOIN_REQUESTS, CONTACT_MESSAGES>>

----------------------------------------------------------------------------
(* Bounds *)

\* longest Accept-Language header enumerated character by character
MaxLen == 3

\* most records in a sample table
MaxRecords == 3

----------------------------------------------------------------------------
(* Python str operations used by get_language *)

UpperCase == <<"A","B","C","D","E","F","G","H","I","J","K","L","M",
               "N","O","P","Q","R","S","T","U","V","W","X","Y","Z">>

LowerCase == <<"a","b","c","d","e","f","g","h","i","j","k","l","m",
               "n","o","p","q","r","s","t","u","v","w","x","y","z">>

\* str.lower() on one character
LowerChar(c) ==
    IF \E i \in 1..Len(UpperCase) : UpperCase[i] = c
    THEN LowerCase[CHOOSE i \in 1..Len(UpperCase) : UpperCase[i] = c]
    ELSE c

\* str.lower()
Lower(s) == [i \in 1..Len(s) |-> LowerChar(s[i])]

\* characters str.strip() removes
IsSpace(c) == c \in {" ", "\t"}

\* str.lstrip()
RECURSIVE LStrip(_)
LStrip(s) ==
    IF s # <<>> /\ IsSpace(Head(s)) THEN LStrip(Tail(s)) ELSE s

\* str.rstrip()
RECURSIVE RStrip(_)
RStrip(s) ==
    IF s # <<>> /\ IsSpace(s[Len(s)]) THEN RStrip(SubSeq(s, 1, Len(s) - 1)) ELSE s

\* str.strip()
Strip(s) == RStrip(LStrip(s))

\* str.startswith(p)
StartsWith(s, p) == Len(s) >= Len(p) /\ SubSeq(s, 1, Len(p)) = p

\* str.split(sep) for a one-character separator: the list of the pieces,
\* one more than the number of separators ("" splits into [""])
RECURSIVE SplitAcc(_, _, _)
SplitAcc(s, sep, cur) ==
    IF s = <<>> THEN <<cur>>
    ELSE IF Head(s) = sep THEN <<cur>> \o SplitAcc(Tail(s), sep, <<>>)
    ELSE SplitAcc(Tail(s), sep, Append(cur, Head(s)))

Split(s, sep) == SplitAcc(s, sep, <<>>)

----------------------------------------------------------------------------
(* Process-wide tables *)

\* the value of TRANSLATIONS at startup: locale -> string key -> display
\* string (three keys of each locale's table are kept)
TranslationsData ==
    [fr |-> [site_title |-> "Python Togo", nav_home |-> "Accueil",
             nav_about |-> "À propos"],
     en |-> [site_title |-> "Python Togo", nav_home |-> "Home",
             nav_about |-> "About"]]

DONATE_URL == "https://www.paypal.com/donate/?hosted_button_id=A6547S7YGMZ4A"

----------------------------------------------------------------------------
(* Optional values *)

None == <<>>
Some(v) == <<v>>
Optional(S) == {None} \cup {Some(v) : v \in S}

\* dict.get(key, default) on an optional entry
GetOr(o, default) == IF o = None THEN default ELSE o[1]

----------------------------------------------------------------------------
(* Locale resolution *)

\* ScanParts changed to look for a French entry anywhere in the header before
\* looking for an English one
ScanParts_fr_anywhere(parts, i) ==
    LET code(k) == Lower(Strip(Split(parts[k], ";")[1]))
    IN  IF \E k \in i..Len(parts) : StartsWith(code(k), <<"f", "r">>) THEN "fr"
        ELSE IF \E k \in i..Len(parts) : StartsWith(code(k), <<"e", "n">>) THEN "en"
        ELSE "fr"

\* ScanParts changed to fall back to "en" when no entry matches
RECURSIVE ScanParts_default_en(_, _)
ScanParts_default_en(parts, i) ==
    IF i > Len(parts) THEN "en"
    ELSE LET code == Lower(Strip(Split(parts[i], ";")[1]))
         IN  IF StartsWith(code, <<"f", "r">>) THEN "fr"
             ELSE IF StartsWith(code, <<"e", "n">>) THEN "en"
             ELSE ScanParts_default_en(parts, i + 1)

\* the for loop of get_language over accept.split(","), from entry i on, and
\* the final return "fr"
RECURSIVE ScanParts(_, _)
ScanParts(parts, i) ==
    IF i > Len(parts) THEN "fr"
    ELSE LET code == Lower(Strip(Split(parts[i], ";")[1]))
         IN  IF StartsWith(code, <<"f", "r">>) THEN "fr"
             ELSE IF StartsWith(code, <<"e", "n">>) THEN "en"
             ELSE ScanParts(parts, i + 1)

\* get_language changed to return any lang cookie that is set
get_language_any_cookie(r) ==
    LET accept == GetOr(r.accept, <<>>)
    IN  IF r.cookie # None THEN r.cookie[1]
        ELSE IF accept # <<>> THEN ScanParts(Split(accept, ","), 1)
        ELSE "fr"

\* get_language changed to read the Accept-Language header before the cookie
get_language_header_first(r) ==
    LET accept == GetOr(r.accept, <<>>)
    IN  IF accept # <<>> THEN ScanParts(Split(accept, ","), 1)
        ELSE IF r.cookie # None /\ r.cookie[1] \in DOMAIN TRANSLATIONS THEN r.cookie[1]
        ELSE "fr"

\* get_language changed to answer the default for an unsupported lang cookie
get_language_bad_cookie_default(r) ==
    LET accept == GetOr(r.accept, <<>>)
    IN  IF r.cookie # None
        THEN (IF r.cookie[1] \in DOMAIN TRANSLATIONS THEN r.cookie[1] ELSE "fr")
        ELSE IF accept # <<>> THEN ScanParts(Split(accept, ","), 1)
        ELSE "fr"

\* get_language(request): r.cookie is request.cookies.get("lang"), r.accept
\* the Accept-Language header
get_language(r) ==
    LET cookie_lang == r.cookie
        accept == GetOr(r.accept, <<>>)
    IN  IF cookie_lang # None /\ cookie_lang[1] \in DOMAIN TRANSLATIONS
        THEN cookie_lang[1]
        ELSE IF accept # <<>> THEN ScanParts(Split(accept, ","), 1)
        ELSE "fr"

\* ctx(request, extra)
ctx(r, extra) ==
    LET lang == get_language(r)
    IN  [lang |-> lang,
         t |-> IF lang \in DOMAIN TRANSLATIONS THEN TRANSLATIONS[lang] ELSE <<>>,
         donate_url |-> DONATE_URL,
         extra |-> extra]

----------------------------------------------------------------------------
(* Requests the client can send *)

Alphabet == {"f", "r", "e", "n", "E", "R", ",", ";", " "}

RECURSIVE StringsUpTo(_)
StringsUpTo(n) ==
    IF n = 0 THEN {<<>>}
    ELSE LET shorter == StringsUpTo(n - 1)
         IN  shorter \cup {Append(s, c) : s \in {t \in shorter : Len(t) = n - 1},
                                         c \in Alphabet}

ExampleHeaders ==
    { <<"e","n","-","U","S",",","f","r",";","q","=","0",".","8">>,
      <<"f","r","-","F","R",",","e","n",";","q","=","0",".","9">>,
      <<"d","e",",","e","n",";","q","=","0",".","5">>,
      <<"d","e",";","q","=","1",",","F","R">>,
      <<"d","e","-","D","E",",","e","s">>,
      <<"*">> }

AcceptHeaders == StringsUpTo(MaxLen) \cup ExampleHeaders

CookieValues == {"fr", "en", "FR", "de", ""}

LangCodes == {"fr", "en", "FR", "de"}

Referers == {"", "/events", "https://pytogo.org/about"}

\* the pages whose handler passes ctx(request) alone to the template
SimplePages == {"about", "communities", "join", "contact", "code-of-conduct",
                "privacy"}

NoReq == [kind |-> "none"]
NoResp == [status |-> 0]

----------------------------------------------------------------------------
(* Route handlers *)

\* set_language changed to redirect to the home page always
set_language_home(lang_code, r) ==
    IF lang_code \notin DOMAIN TRANSLATIONS
    THEN [status |-> 404, detail |-> "Language not supported"]
    ELSE [status |-> 307, location |-> "/",
          set_cookie |-> [key |-> "lang", value |-> lang_code,
                          max_age |-> 60 * 60 * 24 * 365,
                          httponly |-> FALSE, samesite |-> "lax"]]

\* set_language changed to write the default locale into the cookie
set_language_default_cookie(lang_code, r) ==
    IF lang_code \notin DOMAIN TRANSLATIONS
    THEN [status |-> 404, detail |-> "Language not supported"]
    ELSE LET referer == IF GetOr(r.referer, "") # "" THEN r.referer[1] ELSE "/"
         IN  [status |-> 307, location |-> referer,
              set_cookie |-> [key |-> "lang", value |-> "fr",
                              max_age |-> 60 * 60 * 24 * 365,
                              httponly |-> FALSE, samesite |-> "lax"]]

\* set_language changed to accept any language code
set_language_any_code(lang_code, r) ==
    LET referer == IF GetOr(r.referer, "") # "" THEN r.referer[1] ELSE "/"
    IN  [status |-> 307, location |-> referer,
         set_cookie |-> [key |-> "lang", value |-> lang_code,
                         max_age |-> 60 * 60 * 24 * 365,
                         httponly |-> FALSE, samesite |-> "lax"]]

\* set_language(lang_code, request): the response
set_language(lang_code, r) ==
    IF lang_code \notin DOMAIN TRANSLATIONS
    THEN [status |-> 404, detail |-> "Language not supported"]
    ELSE LET referer == IF GetOr(r.referer, "") # "" THEN r.referer[1] ELSE "/"
         IN  [status |-> 307, location |-> referer,
              set_cookie |-> [key |-> "lang", value |-> lang_code,
                              max_age |-> 60 * 60 * 24 * 365,
                              httponly |-> FALSE, samesite |-> "lax"]]

----------------------------------------------------------------------------
(* Python values carried by a submission payload, tagged by their type *)

PyStr(s) == <<"str", s>>
PyBool(b) == <<"bool", b>>
PyInt(i) == <<"int", i>>
PyNone == <<"none">>

\* marks a key the payload does not have
Missing == <<"missing">>

\* int(v) of a bool or an int
Num(v) == IF v[1] = "bool" THEN (IF v[2] THEN 1 ELSE 0) ELSE v[2]

\* Python ==: True == 1 and False == 0, otherwise same type and same value
PyEq(a, b) ==
    IF a[1] \in {"bool", "int"} /\ b[1] \in {"bool", "int"}
    THEN Num(a) = Num(b)
    ELSE a[1] = b[1] /\ a = b

\* Python `v in tup`
PyIn(v, tup) == \E i \in 1..Len(tup) : PyEq(v, tup[i])

\* payload.get(f) is there
Has(payload, f) == f \in DOMAIN payload /\ payload[f] # Missing

----------------------------------------------------------------------------
(* pydantic models *)

\* strings a bool field takes for True and for False (pydantic lowercases
\* the string first, so every case variant is listed)
BoolTrueStrings == {"1", "on", "On", "ON", "t", "T", "true", "True", "TRUE",
                    "y", "Y", "yes", "Yes", "YES"}
BoolFalseStrings == {"0", "off", "Off", "OFF", "f", "F", "false", "False", "FALSE",
                     "n", "N", "no", "No", "NO"}

\* a required str field accepts the value
StrOk(payload, f) == Has(payload, f) /\ payload[f][1] = "str"

\* a required bool field accepts the value
BoolOk(payload, f) ==
    /\ Has(payload, f)
    /\ \/ payload[f][1] = "bool"
       \/ payload[f][1] = "int" /\ payload[f][2] \in {0, 1}
       \/ payload[f][1] = "str" /\ payload[f][2] \in BoolTrueStrings \cup BoolFalseStrings

\* the bool a bool field stores for an accepted value
BoolOf(v) ==
    IF v[1] = "bool" THEN v
    ELSE IF v[1] = "int" THEN PyBool(v[2] = 1)
    ELSE PyBool(v[2] \in BoolTrueStrings)

\* an optional str field: None by default
OptStr(payload, f) == IF Has(payload, f) THEN payload[f] ELSE PyNone

\* what constructing a model gives: the instance, or a ValidationError
Instance(fields) == <<"ok", fields>>
ValidationError == <<"ValidationError">>

\* class JoinRequest(BaseModel): keys the class does not declare are ignored
JoinRequest(payload) ==
    IF StrOk(payload, "name") /\ StrOk(payload, "email")
    THEN Instance([name |-> payload.name, email |-> payload.email,
                   phone |-> OptStr(payload, "phone"),
                   city |-> OptStr(payload, "city"),
                   level |-> OptStr(payload, "level"),
                   interests |-> OptStr(payload, "interests")])
    ELSE ValidationError

\* class PartnershipRequest(BaseModel)
PartnershipRequest(payload) ==
    IF StrOk(payload, "organization") /\ StrOk(payload, "contact_name")
       /\ StrOk(payload, "email")
    THEN Instance([organization |-> payload.organization,
                   contact_name |-> payload.contact_name,
                   email |-> payload.email,
                   website |-> OptStr(payload, "website"),
                   message |-> OptStr(payload, "message")])
    ELSE ValidationError

\* class ContactSubmit(BaseModel)
ContactSubmit(payload) ==
    IF StrOk(payload, "name") /\ StrOk(payload, "email")
       /\ StrOk(payload, "subject") /\ StrOk(payload, "message")
       /\ BoolOk(payload, "agree_privacy") /\ BoolOk(payload, "agree_coc")
    THEN Instance([name |-> payload.name, email |-> payload.email,
                   subject |-> payload.subject, message |-> payload.message,
                   agree_privacy |-> BoolOf(payload.agree_privacy),
                   agree_coc |-> BoolOf(payload.agree_coc)])
    ELSE ValidationError

----------------------------------------------------------------------------
(* Email validation and storage *)

ValidEmail == "ada@pytogo.org"
MalformedEmail == "not-an-email"
UndeliverableEmail == "ada@no-mx.example"

\* validate_email(email, check_deliverability=True) raises EmailNotValidError
\* (EmailUndeliverableError is a subclass of it)
EmailNotValid(email) == email[2] \in {MalformedEmail, UndeliverableEmail, ""}

\* json.dumps(data.dict())
JsonDumps(fields) == <<"json", fields>>

\* insert_data(table, data): the call made on the storage client
InsertCall(table, data) == [table |-> table, data |-> data]

----------------------------------------------------------------------------
(* Responses *)

JSONResponse(status_code, content) == [status |-> status_code, body |-> content]

\* an exception no handler catches: 500 Internal Server Error
Unhandled(exc) == [status |-> 500, body |-> [raised |-> exc]]

\* FastAPI rejects a body that does not validate against the declared
\* body parameter: 422 Unprocessable Entity
RequestValidationError == [status |-> 422, body |-> [detail |-> "validation"]]

\* what a handler gives: the response and the storage calls it made
Outcome(response, storage_calls) == [resp |-> response, calls |-> storage_calls]

ConsentValues == <<PyBool(TRUE), PyStr("true"), PyStr("True"), PyStr("on"), PyStr("1"), PyInt(1)>>

\* attribute access data.f succeeds
HasAttr(data, f) == f \in DOMAIN data

\* `"application/json" in ct`
IsJson(ct) == ct \in {"application/json", "application/json; charset=utf-8"}

\* lines 1301-1320 of partnership_submit, from the email check on
partnership_checks(data, ok) ==
    IF EmailNotValid(data.email)
    THEN Outcome(JSONResponse(400, [error |-> "Please use a valide email"]), <<>>)
    ELSE IF ~HasAttr(data, "agree_privacy") \/ ~HasAttr(data, "agree_coc")
    THEN Outcome(Unhandled("AttributeError"), <<>>)
    ELSE LET agree_privacy == PyIn(data.agree_privacy, ConsentValues)
             agree_coc == PyIn(data.agree_coc, ConsentValues)
         IN  IF ~agree_privacy \/ ~agree_coc
             THEN Outcome(JSONResponse(400, [error |-> "consent_required"]), <<>>)
             ELSE Outcome(JSONResponse(200, [status |-> IF ok THEN "received" ELSE "Failed"]),
                          <<InsertCall("partnershiprequest", JsonDumps(data))>>)

\* partnership_submit(request: PartnershipRequest): the framework binds the
\* JSON body to the parameter and answers 422 itself when it does not
\* validate; the handler then reads request.headers of the model instance
partnership_submit(r, ok) ==
    LET request == IF IsJson(r.content_type) THEN PartnershipRequest(r.payload)
                   ELSE ValidationError
    IN  IF request = ValidationError
        THEN Outcome(RequestValidationError, <<>>)
        ELSE IF ~HasAttr(request[2], "headers")
        THEN Outcome(Unhandled("AttributeError"), <<>>)
        ELSE LET data == PartnershipRequest(r.payload)
             IN  IF data = ValidationError
                 THEN Outcome(Unhandled("ValidationError"), <<>>)
                 ELSE partnership_checks(data[2], ok)

\* join_submit(request): ok is the outcome of the storage insert
join_submit(r, ok) ==
    LET model == JoinRequest(r.payload)
    IN  IF model = ValidationError
        THEN Outcome(Unhandled("ValidationError"), <<>>)
        ELSE LET data == model[2]
             IN  IF EmailNotValid(data.email)
                 THEN Outcome(JSONResponse(400, [error |-> "Please use a valide email"]), <<>>)
                 ELSE IF ~HasAttr(data, "agree_privacy") \/ ~HasAttr(data, "agree_coc")
                 THEN Outcome(Unhandled("AttributeError"), <<>>)
                 ELSE LET agree_privacy == PyIn(data.agree_privacy, ConsentValues)
                          agree_coc == PyIn(data.agree_coc, ConsentValues)
                      IN  IF ~agree_privacy \/ ~agree_coc
                          THEN Outcome(JSONResponse(400, [error |-> "consent_required"]), <<>>)
                          ELSE Outcome(JSONResponse(200, [status |-> IF ok THEN "received"
                                                                     ELSE "Failed"]),
                                       <<InsertCall("members", JsonDumps(data))>>)

\* contact_submit changed to store the message before it checks the email
\* and the consent flags
contact_submit_insert_first(r, ok) ==
    LET model == ContactSubmit(r.payload)
    IN  IF model = ValidationError
        THEN Outcome(Unhandled("ValidationError"), <<>>)
        ELSE LET data == model[2]
                 stored == <<InsertCall("contacts", JsonDumps(data))>>
             IN  IF EmailNotValid(data.email)
                 THEN Outcome(JSONResponse(400, [error |-> "Please use a valide email"]), stored)
                 ELSE LET agree_privacy == PyIn(data.agree_privacy, ConsentValues)
                          agree_coc == PyIn(data.agree_coc, ConsentValues)
                      IN  IF ~agree_privacy \/ ~agree_coc
                          THEN Outcome(JSONResponse(400, [error |-> "consent_required"]), stored)
                          ELSE Outcome(JSONResponse(200, [status |-> IF ok THEN "received"
                                                                     ELSE "Failed"]),
                                       stored)

\* contact_submit(request): ok is the outcome of the storage insert
contact_submit(r, ok) ==
    LET model == ContactSubmit(r.payload)
    IN  IF model = ValidationError
        THEN Outcome(Unhandled("ValidationError"), <<>>)
        ELSE LET data == model[2]
             IN  IF EmailNotValid(data.email)
                 THEN Outcome(JSONResponse(400, [error |-> "Please use a valide email"]), <<>>)
                 ELSE IF ~HasAttr(data, "agree_privacy") \/ ~HasAttr(data, "agree_coc")
                 THEN Outcome(Unhandled("AttributeError"), <<>>)
                 ELSE LET agree_privacy == PyIn(data.agree_privacy, ConsentValues)
                          agree_coc == PyIn(data.agree_coc, ConsentValues)
                      IN  IF ~agree_privacy \/ ~agree_coc
                          THEN Outcome(JSONResponse(400, [error |-> "consent_required"]), <<>>)
                          ELSE Outcome(JSONResponse(200, [status |-> IF ok THEN "received"
                                                                     ELSE "Failed"]),
                                       <<InsertCall("contacts", JsonDumps(data))>>)

----------------------------------------------------------------------------
(* Submission payloads the client can send *)

ContentTypes == {"application/json", "application/x-www-form-urlencoded"}

\* a form-encoded body carries strings only
FlagValues(ct) ==
    {Missing, PyStr("true"), PyStr("on"), PyStr("1"), PyStr("false"), PyStr("maybe")}
    \cup (IF IsJson(ct) THEN {PyBool(TRUE), PyBool(FALSE), PyInt(1), PyInt(0)} ELSE {})

EmailValues == {Missing, PyStr(ValidEmail), PyStr(MalformedEmail), PyStr(UndeliverableEmail)}

Text(s) == {Missing, PyStr(s)}

JoinPayloads(ct) ==
    [name : Text("Ada"), email : EmailValues, city : Text("Lome"),
     agree_privacy : FlagValues(ct), agree_coc : FlagValues(ct)]

ContactPayloads(ct) ==
    [name : Text("Ada"), email : EmailValues, subject : Text("Hello"),
     message : {PyStr("Bonjour")},
     agree_privacy : FlagValues(ct), agree_coc : FlagValues(ct)]

PartnershipPayloads(ct) ==
    [organization : Text("PSF"), contact_name : {PyStr("Ada")}, email : EmailValues,
     website : Text("https://python.org"),
     agree_privacy : FlagValues(ct), agree_coc : FlagValues(ct)]

----------------------------------------------------------------------------
(* Sample data and the records a sample table can hold *)

\* a dict with no key
EmptyDict == [k \in {} |-> ""]

\* d.get(k, default)
DictGet(d, k, default) == IF k \in DOMAIN d THEN d[k] ELSE default

\* dates are compared as strings, so they are sequences of characters
D_2025_12_05 == <<"2","0","2","5","-","1","2","-","0","5">>
D_2025_07_20_to_2025_08_22 == <<"2","0","2","5","-","0","7","-","2","0"," "," ","t","o"," ","2","0","2","5","-","0","8","-","2","2">>
D_2026_01_20 == <<"2","0","2","6","-","0","1","-","2","0">>
D_2025_07_20 == <<"2","0","2","5","-","0","7","-","2","0">>
D_2025_11_01 == <<"2","0","2","5","-","1","1","-","0","1">>
D_2025_09_15 == <<"2","0","2","5","-","0","9","-","1","5">>
D_2025_08_23 == <<"2","0","2","5","-","0","8","-","2","3">>
D_2025_10_10 == <<"2","0","2","5","-","1","0","-","1","0">>

\* the three records of SAMPLE_EVENTS
Event1 ==
    [id |-> 1, date |-> D_2025_12_05, location |-> "Lomé",
     translations |->
        [fr |-> [title |-> "Atelier Python débutant",
                 description |-> "Introduction à Python pour les nouveaux développeurs."],
         en |-> [title |-> "Beginner Python workshop",
                 description |-> "Introduction to Python for new developers."]]]

Event3 ==
    [id |-> 3, date |-> D_2025_07_20_to_2025_08_22, location |-> "Lomé",
     translations |->
        [fr |-> [title |-> "Challenge 30 jours de code Python",
                 description |-> "Challenge d'introduction à Python pour les nouveaux développeurs."],
         en |-> [title |-> "30 Days of Python Code Challenge",
                 description |-> "Introductory Python challenge for new developers."]]]

Event2 ==
    [id |-> 2, date |-> D_2026_01_20, location |-> "Lomé",
     translations |->
        [fr |-> [title |-> "Data Science avec Python",
                 description |-> "Atelier sur les bases de la data science."],
         en |-> [title |-> "Data Science with Python",
                 description |-> "Workshop on the basics of data science."]]]

\* SAMPLE_EVENTS as the source file sets it
SampleEventsData == <<Event1, Event3, Event2>>

\* the three records of SAMPLE_NEWS
News1 ==
    [id |-> 1, date |-> D_2025_11_01,
     image |-> "https://res.cloudinary.com/dvg7vky5o/image/upload/v1763440928/20251117_200618_tsfc73.jpg",
     translations |->
        [fr |-> [title |-> "Lancement d'un nouvel atelier Python",
                 excerpt |-> "Nous organisons un atelier sur les bases de Python.",
                 body |-> "Rejoignez-nous pour un atelier d'introduction à Python"],
         en |-> [title |-> "Launching a new Python workshop",
                 excerpt |-> "We are organizing a beginner-friendly Python workshop.",
                 body |-> "Join us for an introductory Python workshop for newcomers."]]]

News2 ==
    [id |-> 2, date |-> D_2025_09_15,
     image |-> "https://res.cloudinary.com/dvg7vky5o/image/upload/v1763440928/20251117_200618_tsfc73.jpg",
     translations |->
        [fr |-> [title |-> "Rencontre communautaire à Lomé",
                 excerpt |-> "Retour sur la rencontre mensuelle.",
                 body |-> "Compte-rendu de notre dernière rencontre communautaire à Lomé"],
         en |-> [title |-> "Community meetup in Lomé",
                 excerpt |-> "Recap of the monthly meetup.",
                 body |-> "A recap of our latest community meetup in Lomé"]]]

News3 ==
    [id |-> 3, date |-> D_2025_08_23,
     image |-> "https://res.cloudinary.com/dvg7vky5o/image/upload/v1747588996/Group_6_r7n6id.png",
     translations |->
        [fr |-> [title |-> "Rapport de la PyCon Togo 2025",
                 excerpt |-> "Retour sur la PyCon Togo 2025.",
                 body |-> "Compte-rendu de la PyCon Togo 2025"],
         en |-> [title |-> "PyCon Togo 2025 Report",
                 excerpt |-> "Recap of the PyCon Togo 2025.",
                 body |-> "A recap of the PyCon Togo 2025"]]]

\* SAMPLE_NEWS as the source file sets it
SampleNewsData == <<News1, News2, News3>>

\* further records of the shape the handlers accept: optional keys left
\* out, a locale or a text field without translation, an empty image
Event4 ==
    [id |-> 4, date |-> D_2025_07_20,
     translations |-> [fr |-> [title |-> "Rencontre"]]]

Event5 == [id |-> 5, date |-> D_2025_12_05, translations |-> EmptyDict]

Event6 == [id |-> 6, date |-> D_2025_09_15, location |-> "Kara"]

News4 ==
    [id |-> 4, date |-> D_2025_11_01, image |-> "",
     translations |-> [en |-> [title |-> "Call for speakers"]]]

News5 == [id |-> 5, date |-> D_2025_10_10]

EventPool == {Event1, Event2, Event3, Event4, Event5, Event6}

NewsPool == {News1, News2, News3, News4, News5}

\* the lists of at most n different records of a pool
RECURSIVE ListsUpTo(_, _)
ListsUpTo(pool, n) ==
    IF n = 0 THEN {<<>>}
    ELSE LET shorter == ListsUpTo(pool, n - 1)
         IN  shorter \cup
             {Append(l, x) : l \in {m \in shorter : Len(m) = n - 1}, x \in pool}

Distinct(l) == \A i, j \in 1..Len(l) : l[i] = l[j] => i = j

EventTables == {l \in ListsUpTo(EventPool, MaxRecords) : Distinct(l)}

NewsTables == {l \in ListsUpTo(NewsPool, MaxRecords) : Distinct(l)}

\* the rows of the storage tables "partners" and "galleries"
PartnerRows == <<[name |-> "Python Software Foundation"]>>

GalleryRows == <<[title |-> "PyCon Togo", url |-> "https://photos.example/pycon-togo"]>>

\* get_data(table): the rows select("*") returned, or [] when it raised
get_data(rows) == {rows, <<>>}

----------------------------------------------------------------------------
(* Python str comparison and sorted() *)

\* the characters of a date, in code point order
CodeOrder == <<" ", "-", "0", "1", "2", "3", "4", "5", "6", "7", "8", "9", "o", "t">>

\* ord(c), up to an order-preserving renumbering
Ord(c) == CHOOSE i \in 1..Len(CodeOrder) : CodeOrder[i] = c

\* a < b on str: the first differing character decides, a proper prefix is less
RECURSIVE PyStrLess(_, _)
PyStrLess(a, b) ==
    IF b = <<>> THEN FALSE
    ELSE IF a = <<>> THEN TRUE
    ELSE IF Head(a) # Head(b) THEN Ord(Head(a)) < Ord(Head(b))
    ELSE PyStrLess(Tail(a), Tail(b))

\* one step of the stable descending sort: x goes before the first item of a
\* smaller date, behind the items of an equal date
RECURSIVE InsertDesc(_, _)
InsertDesc(sorted, x) ==
    IF sorted = <<>> THEN <<x>>
    ELSE IF PyStrLess(Head(sorted).date, x.date) THEN <<x>> \o sorted
    ELSE <<Head(sorted)>> \o InsertDesc(Tail(sorted), x)

\* the same step of an ascending sort
RECURSIVE InsertAsc(_, _)
InsertAsc(sorted, x) ==
    IF sorted = <<>> THEN <<x>>
    ELSE IF PyStrLess(x.date, Head(sorted).date) THEN <<x>> \o sorted
    ELSE <<Head(sorted)>> \o InsertAsc(Tail(sorted), x)

RECURSIVE SortAsc(_, _)
SortAsc(items, done) ==
    IF items = <<>> THEN done ELSE SortAsc(Tail(items), InsertAsc(done, Head(items)))

\* sorted_by_date changed to sort in ascending order (reverse=True left out)
sorted_by_date_ascending(items) == SortAsc(items, <<>>)

RECURSIVE SortDesc(_, _)
SortDesc(items, done) ==
    IF items = <<>> THEN done ELSE SortDesc(Tail(items), InsertDesc(done, Head(items)))

\* sorted(items, key=lambda x: x["date"], reverse=True)
sorted_by_date(items) == SortDesc(items, <<>>)

\* items[:n]
Take(items, n) == SubSeq(items, 1, IF Len(items) < n THEN Len(items) ELSE n)

----------------------------------------------------------------------------
(* Projection of the sample records *)

\* event_item changed to fall back to the French texts when the locale has
\* no translation
event_item_fr_fallback(e, lang) ==
    LET all == DictGet(e, "translations", EmptyDict)
        tr == DictGet(all, lang, DictGet(all, "fr", EmptyDict))
    IN  [id |-> e.id, date |-> e.date,
         location |-> DictGet(e, "location", ""),
         title |-> DictGet(tr, "title", ""),
         description |-> DictGet(tr, "description", "")]

\* the dict events and event_detail build for one record
event_item(e, lang) ==
    LET tr == DictGet(DictGet(e, "translations", EmptyDict), lang, EmptyDict)
    IN  [id |-> e.id, date |-> e.date,
         location |-> DictGet(e, "location", ""),
         title |-> DictGet(tr, "title", ""),
         description |-> DictGet(tr, "description", "")]

\* news_image changed to a placeholder that does not name the record
news_image_fixed(n, size) ==
    IF DictGet(n, "image", "") # "" THEN n.image
    ELSE "https://picsum.photos/seed/news/" \o size

\* n.get("image") or f"https://picsum.photos/seed/news-{n['id']}/<size>"
news_image(n, size) ==
    IF DictGet(n, "image", "") # "" THEN n.image
    ELSE "https://picsum.photos/seed/news-" \o ToString(n.id) \o "/" \o size

\* the dict home and actualities build for one record
news_list_item(n, lang) ==
    LET tr == DictGet(DictGet(n, "translations", EmptyDict), lang, EmptyDict)
    IN  [id |-> n.id, date |-> n.date,
         title |-> DictGet(tr, "title", ""),
         excerpt |-> DictGet(tr, "excerpt", ""),
         image |-> news_image(n, "600/340")]

\* the dict news_detail builds
news_detail_item(n, lang) ==
    LET tr == DictGet(DictGet(n, "translations", EmptyDict), lang, EmptyDict)
    IN  [id |-> n.id, date |-> n.date,
         title |-> DictGet(tr, "title", ""),
         body |-> DictGet(tr, "body", ""),
         image |-> news_image(n, "1200/680")]

\* Find changed to take the id for the position of the record in the table
Find_by_position(table, id) ==
    IF id \in 1..Len(table) THEN Some(table[id]) ELSE None

\* next((x for x in table if x["id"] == id), None), as an optional value
Find(table, id) ==
    LET hits == {i \in 1..Len(table) : table[i].id = id}
    IN  IF hits = {} THEN None
        ELSE Some(table[CHOOSE i \in hits : \A j \in hits : i <= j])

HTTPException(status_code, detail) == [status |-> status_code, detail |-> detail]

TemplateResponse(name, context) == [status |-> 200, name |-> name, context |-> context]

\* home changed to show the first two records without sorting
home_unsorted(r) ==
    LET lang == get_language(r)
        news_items == [i \in 1..Len(SAMPLE_NEWS) |-> news_list_item(SAMPLE_NEWS[i], lang)]
    IN  TemplateResponse("home.html",
            ctx(r, [partners |-> PARTNERS, news_home |-> Take(news_items, 2)]))

\* home(request)
home(r) ==
    LET lang == get_language(r)
        news_items == [i \in 1..Len(SAMPLE_NEWS) |-> news_list_item(SAMPLE_NEWS[i], lang)]
    IN  TemplateResponse("home.html",
            ctx(r, [partners |-> PARTNERS,
                    news_home |-> Take(sorted_by_date(news_items), 2)]))

\* events changed to project the records with the default locale
events_french_items(r) ==
    LET items == [i \in 1..Len(SAMPLE_EVENTS) |-> event_item(SAMPLE_EVENTS[i], "fr")]
    IN  TemplateResponse("events.html", ctx(r, [events |-> sorted_by_date(items)]))

\* events(request)
events(r) ==
    LET lang == get_language(r)
        items == [i \in 1..Len(SAMPLE_EVENTS) |-> event_item(SAMPLE_EVENTS[i], lang)]
    IN  TemplateResponse("events.html", ctx(r, [events |-> sorted_by_date(items)]))

\* event_detail(event_id, request)
event_detail(event_id, r) ==
    LET lang == get_language(r)
        found == Find(SAMPLE_EVENTS, event_id)
    IN  IF found = None THEN HTTPException(404, "Event not found")
        ELSE TemplateResponse("event_detail.html",
                 ctx(r, [item |-> event_item(found[1], lang)]))

\* actualities(request)
actualities(r) ==
    LET lang == get_language(r)
        items == [i \in 1..Len(SAMPLE_NEWS) |-> news_list_item(SAMPLE_NEWS[i], lang)]
    IN  TemplateResponse("actualites.html", ctx(r, [news |-> items]))

\* news_detail(news_id, request)
news_detail(news_id, r) ==
    LET lang == get_language(r)
        found == Find(SAMPLE_NEWS, news_id)
    IN  IF found = None THEN HTTPException(404, "News not found")
        ELSE TemplateResponse("news_detail.html",
                 ctx(r, [item |-> news_detail_item(found[1], lang)]))

\* partners(request)
partners(r) == TemplateResponse("partners.html", ctx(r, [partners |-> PARTNERS]))

\* gallery(request)
gallery(r) == TemplateResponse("gallery.html", ctx(r, [galleries |-> GALLERIES]))

\* Accept-Language headers and record ids of the requests for these pages
PageHeaders == {<<"e","n","-","U","S",",","f","r",";","q","=","0",".","8">>, <<"d","e","-","D","E",",","e","s">>}

DetailIds == 1..7

----------------------------------------------------------------------------
(* The state machine *)

Init ==
    /\ pc = "idle"
    /\ req = NoReq
    /\ resp = NoResp
    /\ jar \in Optional(CookieValues)
    /\ switched = None
    /\ calls = <<>>
    /\ TRANSLATIONS = TranslationsData
    /\ SAMPLE_EVENTS = SampleEventsData
    /\ SAMPLE_NEWS = SampleNewsData
    /\ PARTNERS = PartnerRows
    /\ GALLERIES = GalleryRows
    /\ JOIN_REQUESTS = <<>>
    /\ CONTACT_MESSAGES = <<>>

\* GET of a page whose handler only builds ctx(request)
Page ==
    /\ pc = "idle"
    /\ \E page \in SimplePages, accept \in Optional(AcceptHeaders) :
         /\ req' = [kind |-> "page", page |-> page, cookie |-> jar, accept |-> accept]
         /\ resp' = [status |-> 200, name |-> page, context |-> ctx(req', <<>>)]
    /\ pc' = "done"
    /\ UNCHANGED <<jar, switched, calls, tables>>

\* GET /lang/{lang_code}
SetLanguage ==
    /\ pc = "idle"
    /\ \E lang_code \in LangCodes, referer \in Optional(Referers) :
         /\ req' = [kind |-> "lang", lang_code |-> lang_code, cookie |-> jar,
                    referer |-> referer]
         /\ resp' = set_language(lang_code, req')
    /\ pc' = "done"
    /\ UNCHANGED <<jar, switched, calls, tables>>

\* the client takes the response: a Set-Cookie header replaces the lang cookie
Deliver ==
    /\ pc = "done"
    /\ jar' = IF "set_cookie" \in DOMAIN resp THEN Some(resp.set_cookie.value) ELSE jar
    /\ switched' = IF req.kind = "lang" /\ resp.status = 307
                   THEN Some(req.lang_code) ELSE switched
    /\ pc' = "idle"
    /\ req' = NoReq
    /\ resp' = NoResp
    /\ calls' = <<>>
    /\ UNCHANGED tables

\* POST /api/v1/join
JoinSubmit ==
    /\ pc = "idle"
    /\ \E ct \in ContentTypes, ok \in BOOLEAN :
         \E payload \in JoinPayloads(ct) :
           /\ req' = [kind |-> "join", content_type |-> ct, payload |-> payload]
           /\ resp' = join_submit(req', ok).resp
           /\ calls' = join_submit(req', ok).calls
    /\ pc' = "done"
    /\ UNCHANGED <<jar, switched, tables>>

\* ContactSubmitRoute changed to keep the message in the process-wide list
\* CONTACT_MESSAGES as well
ContactSubmitRoute_logs_message ==
    /\ pc = "idle"
    /\ \E ct \in ContentTypes, ok \in BOOLEAN :
         \E payload \in ContactPayloads(ct) :
           /\ req' = [kind |-> "contact", content_type |-> ct, payload |-> payload]
           /\ resp' = contact_submit(req', ok).resp
           /\ calls' = contact_submit(req', ok).calls
           /\ CONTACT_MESSAGES' = Append(CONTACT_MESSAGES, payload)
    /\ pc' = "done"
    /\ UNCHANGED <<jar, switched, SAMPLE_EVENTS, SAMPLE_NEWS, TRANSLATIONS,
                   PARTNERS, GALLERIES, JOIN_REQUESTS>>

\* POST /api/v1/contact
ContactSubmitRoute ==
    /\ pc = "idle"
    /\ \E ct \in ContentTypes, ok \in BOOLEAN :
         \E payload \in ContactPayloads(ct) :
           /\ req' = [kind |-> "contact", content_type |-> ct, payload |-> payload]
           /\ resp' = contact_submit(req', ok).resp
           /\ calls' = contact_submit(req', ok).calls
    /\ pc' = "done"
    /\ UNCHANGED <<jar, switched, tables>>

\* POST /api/v1/partnership
PartnershipSubmit ==
    /\ pc = "idle"
    /\ \E ct \in ContentTypes, ok \in BOOLEAN :
         \E payload \in PartnershipPayloads(ct) :
           /\ req' = [kind |-> "partnership", content_type |-> ct, payload |-> payload]
           /\ resp' = partnership_submit(req', ok).resp
           /\ calls' = partnership_submit(req', ok).calls
    /\ pc' = "done"
    /\ UNCHANGED <<jar, switched, tables>>

\* GET /
Home ==
    /\ pc = "idle"
    /\ \E accept \in Optional(PageHeaders) :
         /\ req' = [kind |-> "home", cookie |-> jar, accept |-> accept]
         /\ resp' = home(req')
    /\ pc' = "done"
    /\ UNCHANGED <<jar, switched, calls, tables>>

\* GET /events
Events ==
    /\ pc = "idle"
    /\ \E accept \in Optional(PageHeaders) :
         /\ req' = [kind |-> "events", cookie |-> jar, accept |-> accept]
         /\ resp' = events(req')
    /\ pc' = "done"
    /\ UNCHANGED <<jar, switched, calls, tables>>

\* GET /events/{event_id}
EventDetail ==
    /\ pc = "idle"
    /\ \E event_id \in DetailIds, accept \in Optional(PageHeaders) :
         /\ req' = [kind |-> "event_detail", event_id |-> event_id, cookie |-> jar,
                    accept |-> accept]
         /\ resp' = event_detail(event_id, req')
    /\ pc' = "done"
    /\ UNCHANGED <<jar, switched, calls, tables>>

\* GET /actualities
Actualities ==
    /\ pc = "idle"
    /\ \E accept \in Optional(PageHeaders) :
         /\ req' = [kind |-> "actualities", cookie |-> jar, accept |-> accept]
         /\ resp' = actualities(req')
    /\ pc' = "done"
    /\ UNCHANGED <<jar, switched, calls, tables>>

\* GET /actualities/{news_id}
NewsDetail ==
    /\ pc = "idle"
    /\ \E news_id \in DetailIds, accept \in Optional(PageHeaders) :
         /\ req' = [kind |-> "news_detail", news_id |-> news_id, cookie |-> jar,
                    accept |-> accept]
         /\ resp' = news_detail(news_id, req')
    /\ pc' = "done"
    /\ UNCHANGED <<jar, switched, calls, tables>>

\* GET /partners
Partners ==
    /\ pc = "idle"
    /\ \E accept \in Optional(PageHeaders) :
         /\ req' = [kind |-> "partners", cookie |-> jar, accept |-> accept]
         /\ resp' = partners(req')
    /\ pc' = "done"
    /\ UNCHANGED <<jar, switched, calls, tables>>

\* GET /gallery
Gallery ==
    /\ pc = "idle"
    /\ \E accept \in Optional(PageHeaders) :
         /\ req' = [kind |-> "gallery", cookie |-> jar, accept |-> accept]
         /\ resp' = gallery(req')
    /\ pc' = "done"
    /\ UNCHANGED <<jar, switched, calls, tables>>

Next ==
    \/ Page
    \/ SetLanguage
    \/ JoinSubmit
    \/ ContactSubmitRoute
    \/ PartnershipSubmit
    \/ Home
    \/ Events
    \/ EventDetail
    \/ Actualities
    \/ NewsDetail
    \/ Partners
    \/ Gallery
    \/ Deliver

Spec == Init /\ [][Next]_vars

\* the record pages alone, over every small sample table
InitPages ==
    /\ pc = "idle"
    /\ req = NoReq
    /\ resp = NoResp
    /\ jar \in Optional({"en", "de"})
    /\ switched = None
    /\ calls = <<>>
    /\ TRANSLATIONS = TranslationsData
    /\ \/ SAMPLE_EVENTS \in EventTables /\ SAMPLE_NEWS = SampleNewsData
       \/ SAMPLE_EVENTS = SampleEventsData /\ SAMPLE_NEWS \in NewsTables
    /\ PARTNERS \in get_data(PartnerRows)
    /\ GALLERIES \in get_data(GalleryRows)
    /\ JOIN_REQUESTS = <<>>
    /\ CONTACT_MESSAGES = <<>>

NextPages ==
    \/ Home
    \/ Events
    \/ EventDetail
    \/ Actualities
    \/ NewsDetail
    \/ Partners
    \/ Gallery
    \/ Deliver

SpecPages == InitPages /\ [][NextPages]_vars

----------------------------------------------------------------------------
(* Locale resolution: properties *)

\* a page request has been answered
PageDone == pc = "done" /\ req.kind = "page"

\* the request carries no lang cookie naming a supported locale
NoValidCookie == req.cookie = None \/ req.cookie[1] \notin {"fr", "en"}

\* the Accept-Language entries, stated by position: the places a piece ends
Cuts(h) == {i \in 1..Len(h) : h[i] = ","} \cup {Len(h) + 1}

\* the piece of h that ends at cut b
EntryAt(h, b) ==
    LET before == {a \in Cuts(h) : a < b}
        a == IF before = {} THEN 0 ELSE CHOOSE m \in before : \A n \in before : n <= m
    IN  SubSeq(h, a + 1, b - 1)

\* the tag of an entry: what precedes its first ";", stripped and lowercased
TagOf(e) ==
    LET semis == {i \in 1..Len(e) : e[i] = ";"}
        j == IF semis = {} THEN Len(e) + 1 ELSE CHOOSE m \in semis : \A n \in semis : m <= n
    IN  Lower(Strip(SubSeq(e, 1, j - 1)))

\* the locale an entry names, "" when it names none
EntryLocale(e) ==
    IF StartsWith(TagOf(e), <<"f", "r">>) THEN "fr"
    ELSE IF StartsWith(TagOf(e), <<"e", "n">>) THEN "en"
    ELSE ""

\* the cuts of the entries of h that name a locale
Matching(h) == {b \in Cuts(h) : EntryLocale(EntryAt(h, b)) # ""}

\* the first of them
FirstMatch(h) == CHOOSE b \in Matching(h) : \A c \in Matching(h) : b <= c

EnUsThenFr == <<"e","n","-","U","S",",","f","r",";","q","=","0",".","8">>

\* C1: whatever the lang cookie and the Accept-Language header of a page
\* request, get_language returns "fr" or "en".
C1_LocaleAlwaysValid ==
    PageDone => resp.status = 200 /\ resp.context.lang \in {"fr", "en"}

C1_Witness ==
    /\ PageDone
    /\ req.cookie = Some("de")
    /\ req.accept = Some(<<"*">>)
    /\ resp.context.lang = "fr"

\* C2: a lang cookie holding "fr" or "en" is returned as it is, whatever the
\* Accept-Language header.
C2_ValidCookieWins ==
    PageDone /\ req.cookie # None /\ req.cookie[1] \in {"fr", "en"}
        => resp.context.lang = req.cookie[1]

C2_Witness ==
    /\ PageDone
    /\ req.cookie = Some("en")
    /\ req.accept = Some(<<"f", "r">>)
    /\ resp.context.lang = "en"

\* C3: a lang cookie holding anything but "fr" or "en" gives the locale the
\* same request gives without a lang cookie.
C3_BadCookieFallsThrough ==
    PageDone /\ req.cookie # None /\ req.cookie[1] \notin {"fr", "en"}
        => resp.context.lang = get_language([req EXCEPT !.cookie = None])

C3_Witness ==
    /\ PageDone
    /\ req.cookie = Some("FR")
    /\ req.accept = Some(<<"e", "n">>)
    /\ resp.context.lang = "en"

\* C4: without a valid lang cookie the locale is that of the first
\* Accept-Language entry, in header order, whose tag (the text before any
\* ";", stripped, lowercased) starts with "fr" or "en"; "en-US,fr;q=0.8"
\* gives "en".
C4_FirstMatchingEntry ==
    PageDone /\ NoValidCookie /\ req.accept # None
        => /\ Matching(req.accept[1]) # {}
                => resp.context.lang =
                       EntryLocale(EntryAt(req.accept[1], FirstMatch(req.accept[1])))
           /\ req.accept[1] = EnUsThenFr => resp.context.lang = "en"

C4_Witness ==
    /\ PageDone
    /\ req.cookie = None
    /\ req.accept = Some(EnUsThenFr)
    /\ resp.context.lang = "en"

\* C5: without a valid lang cookie the locale is "fr" when the
\* Accept-Language header is absent, empty, or has no entry starting with
\* "fr" or "en".
C5_DefaultFrench ==
    PageDone /\ NoValidCookie
        /\ (req.accept = None \/ req.accept[1] = <<>> \/ Matching(req.accept[1]) = {})
        => resp.context.lang = "fr"

C5_Witness ==
    /\ PageDone
    /\ req.cookie = None
    /\ req.accept = Some(<<"d","e","-","D","E",",","e","s">>)
    /\ resp.context.lang = "fr"

\* C6: GET /lang/{lang_code} with a supported lang_code redirects to the
\* Referer ("/" when the Referer is absent or empty) and sets the cookie lang
\* to lang_code with max-age 31536000 (one year) and SameSite=lax.
C6_SwitchSetsCookie ==
    pc = "done" /\ req.kind = "lang" /\ req.lang_code \in {"fr", "en"}
        => /\ resp.status = 307
           /\ resp.location = IF req.referer = None \/ req.referer[1] = ""
                              THEN "/" ELSE req.referer[1]
           /\ resp.set_cookie.key = "lang"
           /\ resp.set_cookie.value = req.lang_code
           /\ resp.set_cookie.max_age = 31536000
           /\ resp.set_cookie.samesite = "lax"

C6_Witness ==
    /\ pc = "done"
    /\ req.kind = "lang"
    /\ req.lang_code = "en"
    /\ req.referer = Some("/events")
    /\ resp.status = 307
    /\ resp.set_cookie.value = "en"

----------------------------------------------------------------------------
(* Form intake: properties *)

\* a submission has been answered
SubmitDone == pc = "done" /\ req.kind \in {"join", "contact", "partnership"}

\* the text fields a submission kind requires besides the email
RequiredText(kind) ==
    IF kind = "join" THEN {"name"}
    ELSE IF kind = "contact" THEN {"name", "subject", "message"}
    ELSE {"organization", "contact_name"}

\* every required text field of the submission is there
TextComplete == \A f \in RequiredText(req.kind) : req.payload[f] # Missing

\* the response is HTTP 400 with body {error: code}
Rejected(code) == resp.status = 400 /\ resp.body = [error |-> code]

\* the encodings of a given consent the body's content type can carry
TruthyEncodings == {PyStr("true"), PyStr("on"), PyStr("1"), PyBool(TRUE), PyInt(1)}

\* C7: a submission whose agree_privacy is false is answered with HTTP 400
\* {error: "consent_required"}, whatever its other fields, on every
\* submission endpoint.
C7_PrivacyRefusedIsConsentRequired ==
    SubmitDone /\ TextComplete /\ req.payload.email # Missing
        /\ req.payload.agree_privacy \in {PyBool(FALSE), PyStr("false")}
        => Rejected("consent_required")

\* C8: a submission with a malformed email is answered with HTTP 400 for
\* every value of the consent flags, missing ones included, on every
\* submission endpoint.
C8_MalformedEmailIs400 ==
    SubmitDone /\ TextComplete /\ req.payload.email = PyStr(MalformedEmail)
        => resp.status = 400

\* C9: the HTTP 400 response for an invalid email carries the error code
\* "Please use a valid email".
C9_InvalidEmailCode ==
    SubmitDone /\ req.payload.email = PyStr(MalformedEmail) /\ resp.status = 400
        => resp.body = [error |-> "Please use a valid email"]

\* C10: on the join and contact endpoints an otherwise valid submission whose
\* two consent flags each hold one of the truthy encodings passes the consent
\* check: it is not rejected with consent_required and goes on to storage.
C10_TruthyConsentPasses ==
    SubmitDone /\ req.kind \in {"join", "contact"} /\ TextComplete
        /\ req.payload.email = PyStr(ValidEmail)
        /\ req.payload.agree_privacy \in TruthyEncodings
        /\ req.payload.agree_coc \in TruthyEncodings
        => /\ ~Rejected("consent_required")
           /\ resp.status = 200
           /\ Len(calls) = 1

\* the submission has every required text field, a valid email and both
\* consent flags given
FullyValid ==
    /\ TextComplete
    /\ req.payload.email = PyStr(ValidEmail)
    /\ req.payload.agree_privacy \in TruthyEncodings
    /\ req.payload.agree_coc \in TruthyEncodings

\* values of a consent flag that give no consent: the key is missing or falsy
FalsyEncodings == {Missing, PyBool(FALSE), PyInt(0), PyStr("false")}

\* the table each endpoint inserts into
TableOf(kind) ==
    IF kind = "join" THEN "members"
    ELSE IF kind = "contact" THEN "contacts"
    ELSE "partnershiprequest"

\* the handler of a submission kind
Handle(kind, r, ok) ==
    IF kind = "join" THEN join_submit(r, ok)
    ELSE IF kind = "contact" THEN contact_submit(r, ok)
    ELSE partnership_submit(r, ok)

\* the other way of encoding the body
OtherContentType(ct) ==
    IF IsJson(ct) THEN "application/x-www-form-urlencoded" ELSE "application/json"

\* C11: a submission with a valid email in which a consent flag is missing
\* or falsy is answered with HTTP 400 {error: "consent_required"} on every
\* submission endpoint, without an unhandled error and without a storage call.
C11_MissingConsentIsRejected ==
    SubmitDone /\ TextComplete /\ req.payload.email = PyStr(ValidEmail)
        /\ (req.payload.agree_privacy \in FalsyEncodings
            \/ req.payload.agree_coc \in FalsyEncodings)
        => Rejected("consent_required") /\ calls = <<>>

\* C12: a submission that lacks a required field of its kind is answered
\* with HTTP 400 and is not forwarded to storage.
C12_MissingFieldIs400 ==
    SubmitDone /\ (~TextComplete \/ req.payload.email = Missing)
        => resp.status = 400 /\ calls = <<>>

\* C13: on every submission endpoint a payload with all required fields, a
\* valid email and both consent flags truthy makes exactly one storage insert,
\* into the endpoint's table, and is answered without an error.
C13_ValidIsForwardedOnce ==
    SubmitDone /\ FullyValid
        => /\ Len(calls) = 1
           /\ calls[1].table = TableOf(req.kind)
           /\ resp.status = 200

\* C14: an accepted submission whose storage insert did not succeed is
\* answered with a non-error response of body {status: "failed"}, after a
\* single insert attempt.
C14_InsertFailureIsFailed ==
    SubmitDone /\ calls # <<>> /\ resp.body # [status |-> "received"]
        => /\ resp.status = 200
           /\ resp.body = [status |-> "failed"]
           /\ Len(calls) = 1

\* C15: every answer of a submission endpoint is {status: "received"},
\* {status: "failed"}, or HTTP 400 with {error: <code>}.
C15_ThreeResponseShapes ==
    SubmitDone
        => \/ resp.status = 200 /\ resp.body = [status |-> "received"]
           \/ resp.status = 200 /\ resp.body = [status |-> "failed"]
           \/ resp.status = 400 /\ DOMAIN resp.body = {"error"}

\* C16: a submission whose field values are all strings gets the same
\* outcome (response and storage calls) whether it is sent as JSON or
\* form-encoded.
C16_JsonAndFormAgree ==
    SubmitDone /\ (\A f \in DOMAIN req.payload : req.payload[f][1] \in {"str", "missing"})
        => \E ok \in BOOLEAN :
             Handle(req.kind,
                    [req EXCEPT !.content_type = OtherContentType(req.content_type)],
                    ok) = Outcome(resp, calls)

----------------------------------------------------------------------------
(* Record pages: properties *)

\* a request of the given kind has been answered
Done(kind) == pc = "done" /\ req.kind = kind

\* the record has no texts for the locale
Lacks(rec, lang) ==
    "translations" \notin DOMAIN rec \/ lang \notin DOMAIN rec.translations

\* the record of a table that has the id (ids are unique in a table)
RecordOf(table, id) == table[CHOOSE k \in 1..Len(table) : table[k].id = id]

HasId(table, id) == \E k \in 1..Len(table) : table[k].id = id

\* the value of a decimal digit
DigitValue(c) ==
    (CHOOSE i \in 1..10 : <<"0", "1", "2", "3", "4", "5", "6", "7", "8", "9">>[i] = c) - 1

\* the day a date starts on, as the number yyyymmdd read from its first ten
\* characters
StartDay(d) ==
    DigitValue(d[1]) * 10000000 + DigitValue(d[2]) * 1000000
    + DigitValue(d[3]) * 100000 + DigitValue(d[4]) * 10000
    + DigitValue(d[6]) * 1000 + DigitValue(d[7]) * 100
    + DigitValue(d[9]) * 10 + DigitValue(d[10])

\* the ids of the items of a list
Ids(items) == {items[i].id : i \in 1..Len(items)}

\* C17: an event or news record without texts for the resolved locale is
\* projected to an item with the record's id and date and empty text fields,
\* in the list pages and in the detail pages, and the page is rendered.
C17_MissingLocaleGivesBlanks ==
    /\ Done("events") =>
         /\ resp.status = 200
         /\ \A k \in 1..Len(SAMPLE_EVENTS) :
              Lacks(SAMPLE_EVENTS[k], resp.context.lang) =>
                \E i \in 1..Len(resp.context.extra.events) :
                  LET item == resp.context.extra.events[i]
                  IN  /\ item.id = SAMPLE_EVENTS[k].id
                      /\ item.date = SAMPLE_EVENTS[k].date
                      /\ item.title = "" /\ item.description = ""
    /\ Done("event_detail") /\ HasId(SAMPLE_EVENTS, req.event_id) =>
         /\ resp.status = 200
         /\ LET rec == RecordOf(SAMPLE_EVENTS, req.event_id)
                item == resp.context.extra.item
            IN  Lacks(rec, resp.context.lang) =>
                  /\ item.id = rec.id /\ item.date = rec.date
                  /\ item.title = "" /\ item.description = ""
    /\ Done("actualities") =>
         /\ resp.status = 200
         /\ Len(resp.context.extra.news) = Len(SAMPLE_NEWS)
         /\ \A k \in 1..Len(SAMPLE_NEWS) :
              Lacks(SAMPLE_NEWS[k], resp.context.lang) =>
                LET item == resp.context.extra.news[k]
                IN  /\ item.id = SAMPLE_NEWS[k].id
                    /\ item.date = SAMPLE_NEWS[k].date
                    /\ item.title = "" /\ item.excerpt = ""
    /\ Done("home") =>
         /\ resp.status = 200
         /\ \A i \in 1..Len(resp.context.extra.news_home) :
              LET item == resp.context.extra.news_home[i]
              IN  /\ HasId(SAMPLE_NEWS, item.id)
                  /\ Lacks(RecordOf(SAMPLE_NEWS, item.id), resp.context.lang) =>
                       /\ item.date = RecordOf(SAMPLE_NEWS, item.id).date
                       /\ item.title = "" /\ item.excerpt = ""
    /\ Done("news_detail") /\ HasId(SAMPLE_NEWS, req.news_id) =>
         /\ resp.status = 200
         /\ LET rec == RecordOf(SAMPLE_NEWS, req.news_id)
                item == resp.context.extra.item
            IN  Lacks(rec, resp.context.lang) =>
                  /\ item.id = rec.id /\ item.date = rec.date
                  /\ item.title = "" /\ item.body = ""

C17_Witness ==
    /\ Done("event_detail")
    /\ req.event_id = 4
    /\ resp.status = 200
    /\ resp.context.lang = "en"
    /\ Lacks(RecordOf(SAMPLE_EVENTS, 4), "en")
    /\ resp.context.extra.item.title = ""

\* C18: the news preview of the home page holds min(2, number of news
\* records) items, of different records, in non-increasing date order, and no
\* record left out is more recent than an item shown.
C18_PreviewIsTwoMostRecent ==
    Done("home") =>
        LET items == resp.context.extra.news_home
        IN  /\ Len(items) = IF Len(SAMPLE_NEWS) < 2 THEN Len(SAMPLE_NEWS) ELSE 2
            /\ \A i, j \in 1..Len(items) : items[i].id = items[j].id => i = j
            /\ \A i \in 1..Len(items) :
                 /\ HasId(SAMPLE_NEWS, items[i].id)
                 /\ items[i].date = RecordOf(SAMPLE_NEWS, items[i].id).date
            /\ \A i, j \in 1..Len(items) :
                 i < j => StartDay(items[i].date) >= StartDay(items[j].date)
            /\ \A k \in 1..Len(SAMPLE_NEWS), i \in 1..Len(items) :
                 SAMPLE_NEWS[k].id \notin Ids(items)
                    => StartDay(SAMPLE_NEWS[k].date) <= StartDay(items[i].date)

C18_Witness ==
    /\ Done("home")
    /\ Len(SAMPLE_NEWS) = 3
    /\ StartDay(SAMPLE_NEWS[1].date) < StartDay(SAMPLE_NEWS[2].date)
    /\ StartDay(SAMPLE_NEWS[2].date) < StartDay(SAMPLE_NEWS[3].date)
    /\ Len(resp.context.extra.news_home) = 2
    /\ resp.context.extra.news_home[1].id = SAMPLE_NEWS[3].id

\* C19: the events listing holds one item per event record and an event
\* that starts later never comes after one that starts earlier, for dates
\* that are an ISO day or a range "<ISO day>  to <ISO day>".
C19_EventsSortedByDateDescending ==
    Done("events") =>
        LET items == resp.context.extra.events
        IN  /\ Len(items) = Len(SAMPLE_EVENTS)
            /\ Ids(items) = Ids(SAMPLE_EVENTS)
            /\ \A i \in 1..Len(items) :
                 items[i].date = RecordOf(SAMPLE_EVENTS, items[i].id).date
            /\ \A i, j \in 1..Len(items) :
                 i < j => StartDay(items[i].date) >= StartDay(items[j].date)

C19_Witness ==
    /\ Done("events")
    /\ SAMPLE_EVENTS = <<Event4, Event3, Event1>>
    /\ resp.context.extra.events[1].id = 1
    /\ resp.context.extra.events[2].id = 3
    /\ resp.context.extra.events[3].id = 4

\* the placeholder each record without an image is to get
ListPlaceholder(id) ==
    IF id = 4 THEN "https://picsum.photos/seed/news-4/600/340"
    ELSE "https://picsum.photos/seed/news-5/600/340"

DetailPlaceholder(id) ==
    IF id = 4 THEN "https://picsum.photos/seed/news-4/1200/680"
    ELSE "https://picsum.photos/seed/news-5/1200/680"

\* the record has an image of its own
OwnImage(rec) == "image" \in DOMAIN rec /\ rec.image # ""

\* the image of every item of a news list is right
ListImagesRight(items) ==
    /\ \A i \in 1..Len(items) :
         LET rec == RecordOf(SAMPLE_NEWS, items[i].id)
         IN  items[i].image = IF OwnImage(rec) THEN rec.image
                              ELSE ListPlaceholder(rec.id)
    /\ \A i, j \in 1..Len(items) :
         /\ ~OwnImage(RecordOf(SAMPLE_NEWS, items[i].id))
         /\ ~OwnImage(RecordOf(SAMPLE_NEWS, items[j].id))
         /\ items[i].id # items[j].id
         => items[i].image # items[j].image

\* C20: in the home preview, the news listing and the news detail page the
\* image of an item is the record's own non-empty image, and otherwise a
\* placeholder URL fixed by the record id and the page kind, different for
\* different ids.
C20_ImageOrPlaceholderById ==
    /\ Done("home") => ListImagesRight(resp.context.extra.news_home)
    /\ Done("actualities") => ListImagesRight(resp.context.extra.news)
    /\ Done("news_detail") /\ resp.status = 200 =>
         LET rec == RecordOf(SAMPLE_NEWS, req.news_id)
         IN  resp.context.extra.item.image =
                IF OwnImage(rec) THEN rec.image ELSE DetailPlaceholder(rec.id)

C20_Witness ==
    /\ Done("actualities")
    /\ SAMPLE_NEWS = <<News5, News1, News4>>
    /\ resp.context.extra.news[1].image = "https://picsum.photos/seed/news-5/600/340"
    /\ resp.context.extra.news[2].image = News1.image
    /\ resp.context.extra.news[3].image = "https://picsum.photos/seed/news-4/600/340"

----------------------------------------------------------------------------
(* Process-wide state: properties *)

\* the kinds of request that render a template
PageKinds == {"page", "home", "events", "event_detail", "actualities",
              "news_detail", "partners", "gallery"}

\* the responses the handler of a request gives, over the storage outcomes
Answers(r) ==
    IF r.kind = "page"
    THEN {[status |-> 200, name |-> r.page, context |-> ctx(r, <<>>)]}
    ELSE IF r.kind = "lang" THEN {set_language(r.lang_code, r)}
    ELSE IF r.kind = "home" THEN {home(r)}
    ELSE IF r.kind = "events" THEN {events(r)}
    ELSE IF r.kind = "event_detail" THEN {event_detail(r.event_id, r)}
    ELSE IF r.kind = "actualities" THEN {actualities(r)}
    ELSE IF r.kind = "news_detail" THEN {news_detail(r.news_id, r)}
    ELSE IF r.kind = "partners" THEN {partners(r)}
    ELSE IF r.kind = "gallery" THEN {gallery(r)}
    ELSE {Handle(r.kind, r, ok).resp : ok \in BOOLEAN}

\* the tables hold the values they had after startup
TablesAsAtStartup ==
    /\ TRANSLATIONS = TranslationsData
    /\ SAMPLE_EVENTS = SampleEventsData
    /\ SAMPLE_NEWS = SampleNewsData
    /\ PARTNERS = PartnerRows
    /\ GALLERIES = GalleryRows
    /\ JOIN_REQUESTS = <<>>
    /\ CONTACT_MESSAGES = <<>>

\* C21: after any sequence of requests to any endpoints the process-wide
\* tables TRANSLATIONS, SAMPLE_EVENTS, SAMPLE_NEWS, PARTNERS, GALLERIES,
\* JOIN_REQUESTS and CONTACT_MESSAGES hold the values they had after startup,
\* and the response to a request is the one its handler gives for that
\* request alone, for one of the storage outcomes.
C21_TablesNeverChange ==
    /\ TablesAsAtStartup
    /\ pc = "done" => resp \in Answers(req)

\* an accepted contact message, sent after a language switch, is being
\* answered and the lists are still empty
C21_Witness ==
    /\ Done("contact")
    /\ switched = Some("en")
    /\ resp.body = [status |-> "received"]
    /\ Len(calls) = 1
    /\ CONTACT_MESSAGES = <<>>
    /\ JOIN_REQUESTS = <<>>
    /\ SAMPLE_NEWS = SampleNewsData

----------------------------------------------------------------------------
(* Language switch: properties *)

\* a switch the server accepted is on its way to the client
SwitchInFlight == pc = "done" /\ req.kind = "lang" /\ resp.status = 307

\* a template was rendered for a request carrying the cookie of the last
\* accepted switch
RenderedAfterSwitch ==
    /\ pc = "done"
    /\ req.kind \in PageKinds
    /\ resp.status = 200
    /\ req.cookie = switched

\* C22: once GET /lang/L has succeeded for a supported L, the client holds
\* the cookie L until a later switch succeeds (a failed switch leaves it),
\* and every page request carrying that cookie resolves to locale L whatever
\* its Accept-Language header.
C22_SwitchedLocaleSticks ==
    switched # None =>
        /\ switched[1] \in {"fr", "en"}
        /\ ~SwitchInFlight => jar = switched
        /\ RenderedAfterSwitch => resp.context.lang = switched[1]

\* after a switch to English a page is asked for with a French
\* Accept-Language header
C22_Witness ==
    /\ Done("page")
    /\ switched = Some("en")
    /\ req.cookie = Some("en")
    /\ req.accept = Some(<<"f", "r">>)
    /\ resp.context.lang = "en"

\* a switch to a language code that is no key of TRANSLATIONS has been handled
UnsupportedSwitch ==
    pc = "done" /\ req.kind = "lang" /\ req.lang_code \notin {"fr", "en"}

\* C23: GET /lang/{lang_code} with a lang_code that is no key of
\* TRANSLATIONS is answered with HTTP 404 "Language not supported", without a
\* cookie and without a redirect; neither handling it nor delivering the
\* answer changes the client's lang cookie; and a lang cookie the server
\* writes always names a supported locale.
C23_UnsupportedSwitchIs404 ==
    [][ /\ UnsupportedSwitch' =>
              /\ resp' = [status |-> 404, detail |-> "Language not supported"]
              /\ jar' = jar
        /\ UnsupportedSwitch => jar' = jar
        /\ "set_cookie" \in DOMAIN resp' =>
              resp'.set_cookie.value \in {"fr", "en"} ]_vars

\* a client holding the cookie en asked for the unsupported locale de
C23_Witness ==
    /\ pc = "done"
    /\ req.kind = "lang"
    /\ req.lang_code = "de"
    /\ jar = Some("en")
    /\ resp.status = 404

----------------------------------------------------------------------------
(* Storage calls: properties *)

\* the handler returned from the email check or from the consent check
RejectedByCheck ==
    \/ Rejected("Please use a valide email")
    \/ Rejected("consent_required")

\* the handler got past the email check and the consent check: it answers
\* with the outcome of the insert
PassedBothChecks ==
    resp.status = 200 /\ resp.body \in {[status |-> "received"], [status |-> "Failed"]}

\* C24: a rejected submission (invalid email, or a consent flag not truthy)
\* makes no storage insert; in any sequence of submissions each request makes
\* one insert call when it passed both the email check and the consent check
\* and none otherwise, so the insert calls are as many as the submissions
\* that passed both checks, and a submission whose email is not the valid one
\* or whose consent is not given is never stored.
C24_InsertOnlyAfterBothChecks ==
    SubmitDone =>
        /\ Len(calls) <= 1
        /\ RejectedByCheck => calls = <<>>
        /\ Len(calls) = 1 <=> PassedBothChecks
        /\ calls # <<>> =>
              /\ req.payload.email = PyStr(ValidEmail)
              /\ req.payload.agree_privacy \in TruthyEncodings
              /\ req.payload.agree_coc \in TruthyEncodings
              /\ calls[1].table = TableOf(req.kind)

\* a contact message with a valid email and a refused consent is rejected
\* and nothing is stored
C24_Witness ==
    /\ Done("contact")
    /\ req.payload.email = PyStr(ValidEmail)
    /\ req.payload.agree_coc = PyStr("false")
    /\ Rejected("consent_required")
    /\ calls = <<>>

----------------------------------------------------------------------------
(* Detail pages and template context: properties *)

\* the locale of a request, stated by position in the header: a supported
\* cookie, else the first header entry naming a locale, else French
ResolvedLocale(r) ==
    IF r.cookie # None /\ r.cookie[1] \in {"fr", "en"} THEN r.cookie[1]
    ELSE IF r.accept # None /\ Matching(r.accept[1]) # {}
    THEN EntryLocale(EntryAt(r.accept[1], FirstMatch(r.accept[1])))
    ELSE "fr"

\* the text a record has for a field in a locale, blank when it has none
TextOf(rec, lang, field) ==
    IF Lacks(rec, lang) THEN ""
    ELSE IF field \notin DOMAIN rec.translations[lang] THEN ""
    ELSE rec.translations[lang][field]

\* C25: GET /events/{event_id} and GET /actualities/{news_id} answer with
\* HTTP 404 exactly when no sample record has that id; when a record has the
\* id, the page is rendered and its item has the id and the date of that
\* record and the record's texts in the locale the request resolves to.
C25_DetailFoundOr404 ==
    /\ Done("event_detail") =>
         IF HasId(SAMPLE_EVENTS, req.event_id)
         THEN LET rec == RecordOf(SAMPLE_EVENTS, req.event_id)
                  item == resp.context.extra.item
                  lang == ResolvedLocale(req)
              IN  /\ resp.status = 200
                  /\ item.id = req.event_id
                  /\ item.date = rec.date
                  /\ item.title = TextOf(rec, lang, "title")
                  /\ item.description = TextOf(rec, lang, "description")
         ELSE resp = [status |-> 404, detail |-> "Event not found"]
    /\ Done("news_detail") =>
         IF HasId(SAMPLE_NEWS, req.news_id)
         THEN LET rec == RecordOf(SAMPLE_NEWS, req.news_id)
                  item == resp.context.extra.item
                  lang == ResolvedLocale(req)
              IN  /\ resp.status = 200
                  /\ item.id = req.news_id
                  /\ item.date = rec.date
                  /\ item.title = TextOf(rec, lang, "title")
                  /\ item.body = TextOf(rec, lang, "body")
         ELSE resp = [status |-> 404, detail |-> "News not found"]

\* the news record of id 1 stands second in the table and is shown in English
C25_Witness ==
    /\ Done("news_detail")
    /\ SAMPLE_NEWS = <<News5, News1, News4>>
    /\ req.news_id = 1
    /\ resp.status = 200
    /\ resp.context.lang = "en"
    /\ resp.context.extra.item.id = 1
    /\ resp.context.extra.item.title = News1.translations.en.title

\* every item is the projection of the record of its id: its texts are the
\* record's texts in the locale
ItemsIn(lang, items, table, fields) ==
    \A i \in 1..Len(items) :
        /\ HasId(table, items[i].id)
        /\ \A f \in fields :
             items[i][f] = TextOf(RecordOf(table, items[i].id), lang, f)

\* C26: in every rendered page the context has lang equal to
\* get_language(request), t equal to the TRANSLATIONS table of that locale,
\* and the event and news items of the same context carry the record texts
\* of that same locale.
C26_OneLocalePerResponse ==
    pc = "done" /\ req.kind \in PageKinds /\ resp.status = 200 =>
        LET c == resp.context
        IN  /\ c.lang = get_language(req)
            /\ c.lang \in {"fr", "en"}
            /\ c.t = TranslationsData[c.lang]
            /\ req.kind = "home" =>
                  ItemsIn(c.lang, c.extra.news_home, SAMPLE_NEWS, {"title", "excerpt"})
            /\ req.kind = "events" =>
                  ItemsIn(c.lang, c.extra.events, SAMPLE_EVENTS, {"title", "description"})
            /\ req.kind = "event_detail" =>
                  ItemsIn(c.lang, <<c.extra.item>>, SAMPLE_EVENTS, {"title", "description"})
            /\ req.kind = "actualities" =>
                  ItemsIn(c.lang, c.extra.news, SAMPLE_NEWS, {"title", "excerpt"})
            /\ req.kind = "news_detail" =>
                  ItemsIn(c.lang, <<c.extra.item>>, SAMPLE_NEWS, {"title", "body"})

\* the events page in English: English menu, English event titles
C26_Witness ==
    /\ Done("events")
    /\ req.cookie = Some("de")
    /\ req.accept = Some(EnUsThenFr)
    /\ resp.context.lang = "en"
    /\ resp.context.t.nav_home = "Home"
    /\ Len(resp.context.extra.events) = 3
    /\ resp.context.extra.events[1].title = Event2.translations.en.title
====
